---- MODULE Spec2Model ----
(***************************************************************************)
(* The per-client token-bucket rate limiter of src/index.ts (tokenBucket,  *)
(* lines 12-66): a process-wide Map from client key to a mutable Bucket    *)
(* object, refilled lazily from the clock and charged one token per        *)
(* admitted request.                                                       *)
(*                                                                         *)
(* tokenBucket is a synchronous function (no await, no callback between    *)
(* its first and last line), so under Node's run-to-completion event loop  *)
(* each invocation is one atomic step; requests that are "concurrent" are  *)
(* invocations the event loop may run in any order.                        *)
(*                                                                         *)
(* Numbers.  Date.now() is an integer count of milliseconds.  The code     *)
(* holds tokens as a real number and adds ((now - last) / 1000) * RATE.    *)
(* The model holds 1000 * tokens as an integer, so that the refill is the  *)
(* exact integer (now - last) * RATE; Tok(n) is n tokens in that unit.     *)
(* All clock readings of Spec, SpecClient and SpecIdentity are multiples   *)
(* of 50 ms, on which the code's IEEE-754 arithmetic is exact (every value *)
(* is a multiple of 0.5).  SpecDouble runs the same statements on the      *)
(* doubles themselves, with clock readings 10 ms apart.                    *)
(***************************************************************************)
EXTENDS Integers, FiniteSets, Sequences, TLC

\* ------------------------------------------------------------ constants
RATE == 10
CAPACITY == 50
MsPerSecond == 1000
cost == 1
TooManyRequests == 429

\* ------------------------------------------------------------ bounds
\* Clock readings 0, TickMs, ..., MaxTick * TickMs (and a late one).
MaxTick == 2
\* Requests the environment of Spec sends in one run.
MaxCalls == 4
\* Requests one client sends while its bucket is not refilled.
MaxBurst == 60
\* Requests the environment of SpecIdentity sends in one run.
MaxLookups == 2
\* Clock readings 0, StepMs, ..., MaxStep * StepMs of SpecDouble.
MaxStep == 11

Tok(n) == n * MsPerSecond

Min(a, b) == IF a <= b THEN a ELSE b

\* Half the time one token takes to accrue: readings fall below, on and
\* above the point where a refill from zero pays for one request.
TickMs == (MsPerSecond \div RATE) \div 2

\* Twice the time an empty bucket takes to fill.
IdleMs == 2 * ((CAPACITY * MsPerSecond) \div RATE)

\* The readings Date.now() returns, in any order.
Times == {k * TickMs : k \in 0..MaxTick} \cup {IdleMs}

\* Half a second: the time five tokens take to accrue.
HalfSecond == MsPerSecond \div 2

\* The readings of SpecClient.
ClientTimes == Times \cup {HalfSecond}

\* A tenth of the time one token takes to accrue: a client that asks again
\* ten times while it waits for one token.
StepMs == (MsPerSecond \div RATE) \div 10

\* The readings of SpecDouble, off the grid on which doubles are exact.
DoubleTimes == {k * StepMs : k \in 0..MaxStep}

\* A request's identity metadata; "" stands for undefined.
Requests ==
  [ip : {"", "a"}, xff : {"", "b"}, remote : {"", "a"}]

\* The identity metadata of SpecIdentity: each source names its own address.
Identities ==
  [ip : {"", "a"}, xff : {"", "b"}, remote : {"", "c"}]

\* The one client of SpecClient.
ClientReq == [ip |-> "a", xff |-> "", remote |-> "a"]

VARIABLES
  buckets,  \* the Map: client key -> reference to a Bucket object
  heap,     \* the Bucket objects ever allocated, by reference 1..Len(heap)
  out,      \* what the latest invocation did to next and res
  call,     \* history: the latest invocation's key, clock and prior bucket
  burst,    \* history: the invocations since the key's bucket last refilled
  solo,     \* history: each key's bucket as its own requests alone make it
  calls,    \* history: invocations so far (counted under Spec and
            \* SpecIdentity only)
  lastReq,  \* history: the latest request's identity metadata (recorded
            \* under SpecIdentity only)
  tally,    \* history: the client's first and largest clock reading and
            \* its admissions (kept under SpecClient only)
  bucket,   \* the client's Bucket with tokens held as the double the code
            \* computes (SpecDouble only)
  anchor,   \* history: an instant at which that bucket held less than cost
            \* tokens, with the tokens it held (SpecDouble only)
  verdict   \* history: whether the latest request under SpecDouble came on
            \* or after the instant the anchor's deficit is refilled, and
            \* whether it was admitted

exact == <<buckets, heap, out, call, burst, solo, calls, lastReq, tally>>

doubles == <<bucket, anchor, verdict>>

vars == <<exact, doubles>>

NoBucket == [tokens |-> -1, last |-> -1]

\* ------------------------------------------------------------ the code

\* (mutant) the forwarded-for header is consulted before req.ip
getKeyForwardedFirst(req) ==
  IF req.xff # "" THEN req.xff
  ELSE IF req.ip # "" THEN req.ip
  ELSE req.remote

\* function getKey: the first truthy of ip, x-forwarded-for, remoteAddress
getKey(req) ==
  IF req.ip # "" THEN req.ip
  ELSE IF req.xff # "" THEN req.xff
  ELSE req.remote

\* const key = getKey(req) || 'anon'
keyOf(req) == IF getKey(req) # "" THEN getKey(req) ELSE "anon"

\* (mutant) the lookup never finds the stored bucket
getMiss(key) == 0

\* buckets.get(key): the bucket's reference, 0 for undefined
get(key) == IF key \in DOMAIN buckets THEN buckets[key] ELSE 0

\* (mutant) the bucket starts with RATE tokens instead of CAPACITY
createAtRate(now) == [tokens |-> Tok(RATE), last |-> now]

\* { tokens: CAPACITY, last: now }
create(now) == [tokens |-> Tok(CAPACITY), last |-> now]

\* (mutant) every new key gets the one object allocated first
allocShared == Min(1, Len(heap) + 1)

\* the reference a new Bucket object gets
alloc == Len(heap) + 1

\* (mutant) storing a new key drops the keys stored before
setAlone(key, ref) == (key :> ref)

\* buckets.set(key, bucket)
set(key, ref) == (key :> ref) @@ buckets

\* (mutant) the refill is not capped at CAPACITY
refillNoCap(b, now) ==
  IF now - b.last > 0
  THEN [tokens |-> b.tokens + (now - b.last) * RATE, last |-> now]
  ELSE b

\* (mutant) delta is truncated to whole seconds
refillWholeSeconds(b, now) ==
  IF (now - b.last) \div MsPerSecond > 0
  THEN [tokens |-> Min(Tok(CAPACITY),
                       b.tokens + ((now - b.last) \div MsPerSecond) * Tok(RATE)),
        last |-> now]
  ELSE b

\* (mutant) bucket.last = now is outside the if: a backward clock moves it
refillAlwaysStamp(b, now) ==
  IF now - b.last > 0
  THEN [tokens |-> Min(Tok(CAPACITY), b.tokens + (now - b.last) * RATE),
        last |-> now]
  ELSE [b EXCEPT !.last = now]

\* (mutant) bucket.last = now is missing
refillKeepLast(b, now) ==
  IF now - b.last > 0
  THEN [tokens |-> Min(Tok(CAPACITY), b.tokens + (now - b.last) * RATE),
        last |-> b.last]
  ELSE b

\* (mutant) the guard is delta != 0, so a backward clock "refills" too
refillAnyDelta(b, now) ==
  IF now - b.last # 0
  THEN [tokens |-> Min(Tok(CAPACITY), b.tokens + (now - b.last) * RATE),
        last |-> now]
  ELSE b

\* const delta = (now - bucket.last) / 1000; if (delta > 0) { ... }
refill(b, now) ==
  IF now - b.last > 0
  THEN [tokens |-> Min(Tok(CAPACITY), b.tokens + (now - b.last) * RATE),
        last |-> now]
  ELSE b

\* (mutant) exactly cost tokens are not enough
enoughStrict(b) == b.tokens > Tok(cost)

\* (mutant) any positive fraction of a token admits
enoughPositive(b) == b.tokens > 0

\* if (bucket.tokens >= cost)
enough(b) == b.tokens >= Tok(cost)

\* (mutant) the decrement is lost (made on a copy of the bucket)
chargeLost(b) == b

\* bucket.tokens -= cost
charge(b) == [b EXCEPT !.tokens = @ - Tok(cost)]

\* (mutant) next() is not in the if branch: it runs after a rejection too
respondFallThrough(ok) ==
  IF ok
  THEN [next |-> 1, status |-> 0, body |-> ""]
  ELSE [next |-> 1, status |-> TooManyRequests,
        body |-> "Too many requests - slow down"]

\* next()  |  res.status(429).json({ error: ... })
respond(ok) ==
  IF ok
  THEN [next |-> 1, status |-> 0, body |-> ""]
  ELSE [next |-> 0, status |-> TooManyRequests,
        body |-> "Too many requests - slow down"]

\* One bucket's refill-and-charge: the bucket after, and the verdict.
admit(b, now) ==
  LET r == refill(b, now)
  IN  IF enough(r) THEN [bucket |-> charge(r), ok |-> TRUE]
      ELSE [bucket |-> r, ok |-> FALSE]

\* export function tokenBucket(req, res, next)
tokenBucket(req, now) ==
  LET key == keyOf(req)
      found == get(key)
      ref == IF found = 0 THEN alloc ELSE found
      b == IF found = 0 THEN create(now) ELSE heap[ref]
      a == admit(b, now)
  IN  /\ buckets' = IF found = 0 THEN set(key, ref) ELSE buckets
      /\ heap' = IF ref \in 1..Len(heap)
                 THEN [heap EXCEPT ![ref] = a.bucket]
                 ELSE Append(heap, a.bucket)
      /\ out' = respond(a.ok)

\* ------------------------------------------------------------ history

\* The Bucket object the store holds for key k.
Bucket(k) == heap[buckets[k]]

\* Whether this invocation continues the current burst: same key, bucket
\* present, and a clock reading that makes the refill step do nothing.
Continues(req, now) ==
  /\ keyOf(req) \in DOMAIN buckets
  /\ burst.key = keyOf(req)
  /\ now <= Bucket(keyOf(req)).last

Observe(req, now) ==
  LET key == keyOf(req)
      hit == key \in DOMAIN buckets
      pre == IF hit THEN Bucket(key) ELSE NoBucket
      own == admit(IF key \in DOMAIN solo THEN solo[key] ELSE create(now), now)
  IN  /\ call' = [key |-> key, now |-> now, hit |-> hit, pre |-> pre,
                  soloOk |-> own.ok]
      /\ solo' = (key :> own.bucket) @@ solo
      /\ burst' =
           IF Continues(req, now)
           THEN [burst EXCEPT !.attempts = @ + 1, !.admits = @ + out'.next]
           ELSE [key |-> key, fresh |-> ~hit,
                 idle |-> IF hit THEN now - pre.last ELSE 0,
                 first |-> out'.next,
                 base |-> heap'[buckets'[key]].tokens,
                 attempts |-> 0, admits |-> 0]

\* The client's tally after this invocation.
Tally(req, now) ==
  tally' =
    IF keyOf(req) \in DOMAIN buckets
    THEN [tally EXCEPT !.tmax = IF now > @ THEN now ELSE @,
                       !.admitted = @ + out'.next]
    ELSE [created |-> now, tmax |-> now, admitted |-> out'.next]

\* One request handled.
Request(req, now) ==
  /\ Continues(req, now) => burst.attempts < MaxBurst
  /\ tokenBucket(req, now)
  /\ Observe(req, now)

\* ------------------------------------------------------------ doubles
\* tokens is a JavaScript number, an IEEE-754 double: every arithmetic
\* result is rounded to the nearest value of 53 significant binary digits,
\* ties to the even one.  A double of the size the limiter handles is held
\* here exactly, as the integer number of 2^-Frac it is worth, written in
\* base 2^LimbBits as Limbs limbs, the least significant first.

Mantissa == 53
Frac == 66
LimbBits == 20
Limbs == 4

RECURSIVE Pow2(_)
Pow2(n) == IF n = 0 THEN 1 ELSE 2 * Pow2(n - 1)

Base == Pow2(LimbBits)

Zero == [j \in 1..Limbs |-> 0]

\* the integer n, 0 <= n < 2^(Limbs * LimbBits - Frac)
FromInt(n) ==
  [j \in 1..Limbs |->
     IF j = Frac \div LimbBits + 1 THEN n * Pow2(Frac % LimbBits) ELSE 0]

\* limbs j.. of a + b + c, c the carry into limb j
RECURSIVE AddFrom(_, _, _, _)
AddFrom(a, b, j, c) ==
  IF j > Limbs THEN <<>>
  ELSE <<(a[j] + b[j] + c) % Base>>
         \o AddFrom(a, b, j + 1, (a[j] + b[j] + c) \div Base)

Sum(a, b) == AddFrom(a, b, 1, 0)

\* a - b for a >= b
Diff(a, b) == AddFrom(a, [j \in 1..Limbs |-> Base - 1 - b[j]], 1, 1)

\* limbs j.. of a * k + c for an integer 0 <= k < 2^10
RECURSIVE MulFrom(_, _, _, _)
MulFrom(a, k, j, c) ==
  IF j > Limbs THEN <<>>
  ELSE <<(a[j] * k + c) % Base>>
         \o MulFrom(a, k, j + 1, (a[j] * k + c) \div Base)

Product(a, k) == MulFrom(a, k, 1, 0)

\* limbs 1..j of the quotient of a by the integer 0 < d < 2^10, r the
\* remainder carried in from the limbs above j
RECURSIVE QuotFrom(_, _, _, _)
QuotFrom(a, d, j, r) ==
  IF j = 0 THEN <<>>
  ELSE QuotFrom(a, d, j - 1, (r * Base + a[j]) % d)
         \o <<(r * Base + a[j]) \div d>>

RECURSIVE RemFrom(_, _, _, _)
RemFrom(a, d, j, r) ==
  IF j = 0 THEN r ELSE RemFrom(a, d, j - 1, (r * Base + a[j]) % d)

Geq(a, b) ==
  \/ a = b
  \/ \E j \in 1..Limbs : a[j] > b[j] /\ \A k \in (j + 1)..Limbs : a[k] = b[k]

\* binary digit i of a, digit 1 the least significant
Digit(a, i) ==
  (a[(i - 1) \div LimbBits + 1] \div Pow2((i - 1) % LimbBits)) % 2

RECURSIVE Length(_)
Length(n) == IF n = 0 THEN 0 ELSE 1 + Length(n \div 2)

\* the position of the leading binary digit of a, 0 for Zero
Top(a) ==
  IF a = Zero THEN 0
  ELSE LET j == CHOOSE j \in 1..Limbs :
                  a[j] # 0 /\ \A k \in (j + 1)..Limbs : a[k] = 0
       IN  (j - 1) * LimbBits + Length(a[j])

\* a, or a plus a nonzero amount below its last digit when more is TRUE,
\* rounded to Mantissa significant digits, ties to even
Round(a, more) ==
  LET q == Top(a) - Mantissa
  IN  IF q <= 0 THEN a
      ELSE LET kept ==
                 [j \in 1..Limbs |->
                    IF j * LimbBits <= q THEN 0
                    ELSE IF (j - 1) * LimbBits >= q THEN a[j]
                    ELSE a[j] - (a[j] % Pow2(q - (j - 1) * LimbBits))]
               ulp ==
                 [j \in 1..Limbs |->
                    IF j = q \div LimbBits + 1 THEN Pow2(q % LimbBits) ELSE 0]
               below == more \/ \E i \in 1..(q - 1) : Digit(a, i) = 1
               up == Digit(a, q) = 1 /\ (below \/ Digit(a, q + 1) = 1)
           IN  IF up THEN Sum(kept, ulp) ELSE Sum(kept, Zero)

\* the double operations the limiter performs
add(a, b) == Round(Sum(a, b), FALSE)
sub(a, b) == Round(Diff(a, b), FALSE)
mul(a, k) == Round(Product(a, k), FALSE)
div(n, d) ==
  Round(QuotFrom(FromInt(n), d, Limbs, 0), RemFrom(FromInt(n), d, Limbs, 0) # 0)

\* ------------------------------------------------------------ the code, in doubles
\* The same statements as create, refill, enough and charge above, with
\* tokens the double the code computes instead of the exact amount.

NoDouble == [tokens |-> Zero, last |-> -1]

createDouble(now) == [tokens |-> FromInt(CAPACITY), last |-> now]

minDouble(a, b) == IF Geq(a, b) THEN b ELSE a

refillDouble(b, now) ==
  LET delta == div(now - b.last, MsPerSecond)
  IN  IF now > b.last /\ delta # Zero
      THEN [tokens |-> minDouble(FromInt(CAPACITY),
                                 add(b.tokens, mul(delta, RATE))),
            last |-> now]
      ELSE b

enoughDouble(b) == Geq(b.tokens, FromInt(cost))

chargeDouble(b) == [b EXCEPT !.tokens = sub(@, FromInt(cost))]

admitDouble(b, now) ==
  LET r == refillDouble(b, now)
  IN  IF enoughDouble(r) THEN [bucket |-> chargeDouble(r), next |-> 1]
      ELSE [bucket |-> r, next |-> 0]

tokenBucketDouble(now) ==
  admitDouble(IF bucket = NoDouble THEN createDouble(now) ELSE bucket, now)

\* ------------------------------------------------------------ history, in doubles
NoAnchor == [armed |-> FALSE, t0 |-> 0, tokens |-> Zero]

\* now is at or after t0 + (cost - tokens) / RATE seconds, in exact
\* arithmetic: tokens * 1000 + (now - t0) * RATE >= cost * 1000
Due(a, now) ==
  /\ now >= a.t0
  /\ Geq(Sum(Product(a.tokens, MsPerSecond), FromInt((now - a.t0) * RATE)),
         FromInt(cost * MsPerSecond))

\* the clock reading is below an earlier one
Backward(now) == bucket # NoDouble /\ now < bucket.last

\* The anchor stays while requests come before its due instant, are
\* rejected, and the clock does not go backward; a request that leaves less
\* than cost tokens may become the next anchor.
Anchor(now) ==
  IF anchor.armed /\ ~Backward(now) /\ ~Due(anchor, now) /\ verdict'.next = 0
  THEN anchor' = anchor
  ELSE \/ anchor' = NoAnchor
       \/ /\ ~Backward(now)
          /\ ~enoughDouble(bucket')
          /\ anchor' = [armed |-> TRUE, t0 |-> now, tokens |-> bucket'.tokens]

\* ------------------------------------------------------------ behaviours

Init ==
  /\ buckets = <<>>
  /\ heap = <<>>
  /\ out = [next |-> 0, status |-> 0, body |-> ""]
  /\ call = [key |-> "", now |-> 0, hit |-> FALSE, pre |-> NoBucket,
             soloOk |-> FALSE]
  /\ burst = [key |-> "", fresh |-> FALSE, idle |-> 0, first |-> 0,
              base |-> 0, attempts |-> 0, admits |-> 0]
  /\ solo = <<>>
  /\ calls = 0
  /\ lastReq = [ip |-> "", xff |-> "", remote |-> ""]
  /\ tally = [created |-> -1, tmax |-> -1, admitted |-> 0]
  /\ bucket = NoDouble
  /\ anchor = NoAnchor
  /\ verdict = [due |-> FALSE, next |-> 0]

\* A state SpecClient reaches: client "a" was served 49 times at t = 0 and
\* has one token left.
Served ==
  /\ buckets = ("a" :> 1)
  /\ heap = <<[tokens |-> Tok(1), last |-> 0]>>
  /\ out = [next |-> 1, status |-> 0, body |-> ""]
  /\ call = [key |-> "a", now |-> 0, hit |-> TRUE,
             pre |-> [tokens |-> Tok(2), last |-> 0], soloOk |-> TRUE]
  /\ burst = [key |-> "a", fresh |-> TRUE, idle |-> 0, first |-> 1,
              base |-> Tok(CAPACITY - 1), attempts |-> CAPACITY - 2,
              admits |-> CAPACITY - 2]
  /\ solo = ("a" :> [tokens |-> Tok(1), last |-> 0])
  /\ calls = 0
  /\ lastReq = [ip |-> "", xff |-> "", remote |-> ""]
  /\ tally = [created |-> 0, tmax |-> 0, admitted |-> CAPACITY - 1]
  /\ bucket = NoDouble
  /\ anchor = NoAnchor
  /\ verdict = [due |-> FALSE, next |-> 0]

\* Any clients, at most MaxCalls requests.
Handle ==
  \E req \in Requests, now \in Times :
    /\ calls < MaxCalls
    /\ Request(req, now)
    /\ calls' = calls + 1
    /\ UNCHANGED <<lastReq, tally, doubles>>

Next == Handle

\* From the empty store, or from Served (so that a client's bucket runs
\* out within MaxCalls requests).
Spec == (Init \/ Served) /\ [][Next]_vars

\* One client, any number of requests.
HandleClient ==
  \E now \in ClientTimes :
    /\ Request(ClientReq, now)
    /\ Tally(ClientReq, now)
    /\ UNCHANGED <<calls, lastReq, doubles>>

NextClient == HandleClient

SpecClient == Init /\ [][NextClient]_vars

\* Requests with every combination of identity metadata, at most
\* MaxLookups of them, each recorded.
HandleIdentity ==
  \E req \in Identities, now \in Times :
    /\ calls < MaxLookups
    /\ Request(req, now)
    /\ calls' = calls + 1
    /\ lastReq' = req
    /\ UNCHANGED <<tally, doubles>>

NextIdentity == HandleIdentity

SpecIdentity == Init /\ [][NextIdentity]_vars

\* One client that asks again every StepMs or so, with tokens in doubles.
HandleDouble ==
  \E now \in DoubleTimes :
    /\ LET done == tokenBucketDouble(now)
       IN  /\ bucket' = done.bucket
           /\ verdict' = [due |-> anchor.armed /\ ~Backward(now) /\ Due(anchor, now),
                          next |-> done.next]
    /\ Anchor(now)
    /\ UNCHANGED exact

NextDouble == HandleDouble

SpecDouble == Init /\ [][NextDouble]_vars

\* ------------------------------------------------------------ claims

\* What the latest invocation left in its client's bucket.
Post == Bucket(call.key)

\* Requests of the current burst, the one that opened it included.
BurstRequests == 1 + burst.attempts

\* Admissions among them.
BurstAdmitted == burst.first + burst.admits

\* C1. Capacity bound: after every invocation, whatever the clock read,
\* every bucket holds at least 0 and at most CAPACITY tokens.
CapacityBound ==
  \A k \in DOMAIN buckets :
    Bucket(k).tokens >= 0 /\ Bucket(k).tokens <= Tok(CAPACITY)

\* C1 witness: under a clock that went backward a request took the last
\* token, leaving exactly 0.
CapacityBoundWitness ==
  /\ call.hit
  /\ call.now < call.pre.last
  /\ out.next = 1
  /\ Post.tokens = 0

\* C2. Concurrent same-key race: of N requests for one key that run while
\* no refill accrues, against a bucket holding M tokens, exactly min(N, M)
\* (whole tokens of M) are admitted and the rest rejected, and every
\* admission is paid for: the bucket holds M minus the admissions.
RaceAdmitsExactlyM ==
  burst.key # "" =>
    /\ burst.admits = Min(burst.attempts, burst.base \div Tok(cost))
    /\ Bucket(burst.key).tokens = burst.base - burst.admits * Tok(cost)

\* C2 witness: N = 3 requests at one instant against exactly M = 1 token:
\* one admitted, two rejected.
RaceWitness ==
  /\ burst.base = Tok(1)
  /\ burst.attempts = 3
  /\ burst.admits = 1
  /\ call.now = Post.last
  /\ out.status = TooManyRequests

\* C3. Fresh-bucket burst: the first request for an unseen key creates the
\* bucket with CAPACITY tokens and last = now (and is admitted, leaving
\* CAPACITY - cost); of the requests that follow with no time elapsed,
\* exactly CAPACITY in all are admitted and the next one is rejected.
FreshBucketBurst ==
  /\ (call.key # "" /\ ~call.hit) =>
        /\ Post = [tokens |-> Tok(CAPACITY) - Tok(cost), last |-> call.now]
        /\ out.next = 1
  /\ burst.fresh => BurstAdmitted = Min(BurstRequests, CAPACITY \div cost)

\* C3 witness: the (CAPACITY+1)-th request of a new key, at the instant of
\* the first, is the first one rejected.
FreshBurstWitness ==
  /\ burst.fresh
  /\ BurstRequests = CAPACITY + 1
  /\ BurstAdmitted = CAPACITY
  /\ call.now = Post.last
  /\ out.status = TooManyRequests

\* C4. Linear refill: a request that finds its bucket at 0 tokens, D >= 0
\* after the bucket's last refill, is admitted iff D * RATE >= cost.
LinearRefill ==
  (call.hit /\ call.pre.tokens = 0 /\ call.now >= call.pre.last) =>
    (out.next = 1 <=> (call.now - call.pre.last) * RATE >= Tok(cost))

\* C4 witness: D * RATE = cost exactly (D = 100 ms), admitted.
LinearRefillWitness ==
  /\ call.hit
  /\ call.pre.tokens = 0
  /\ (call.now - call.pre.last) * RATE = Tok(cost)
  /\ out.next = 1

\* C5. Refill saturation: a request arriving after more than
\* CAPACITY / RATE seconds of idleness finds exactly CAPACITY tokens, and
\* the burst it opens admits its first CAPACITY requests and no more; no
\* burst at one instant admits more than CAPACITY requests.
RefillSaturation ==
  /\ (call.hit /\ (call.now - call.pre.last) * RATE > Tok(CAPACITY)) =>
        /\ Post.tokens = Tok(CAPACITY) - Tok(cost)
        /\ out.next = 1
  /\ (burst.key # "" /\ burst.idle * RATE > Tok(CAPACITY)) =>
        BurstAdmitted = Min(BurstRequests, CAPACITY \div cost)
  /\ burst.key # "" => BurstAdmitted <= CAPACITY \div cost

\* C5 witness: idle for IdleMs (10 s), then 60 requests at that instant:
\* 50 admitted, 10 rejected.
SaturationWitness ==
  /\ burst.idle = IdleMs
  /\ call.now = IdleMs
  /\ BurstRequests = CAPACITY + RATE
  /\ BurstAdmitted = CAPACITY
  /\ BurstRequests - BurstAdmitted = RATE

\* C6. Key isolation: every key's bucket is what that key's own requests
\* and clock readings alone make of it, and every verdict is the one the
\* key would get were it the only client, whatever the other keys do.
KeyIsolation ==
  /\ DOMAIN solo = DOMAIN buckets
  /\ \A k \in DOMAIN buckets : Bucket(k) = solo[k]
  /\ call.key # "" => ((out.next = 1) <=> call.soloOk)

\* C6 witness: client "a" has run out of tokens; a later request of
\* client "b" is admitted from b's own bucket.
KeyIsolationWitness ==
  /\ {"a", "b"} \subseteq DOMAIN buckets
  /\ Bucket("a").tokens = 0
  /\ call.key = "b"
  /\ call.hit
  /\ out.next = 1
  /\ Bucket("b").tokens = call.pre.tokens - Tok(cost)

\* What the refill step made of the bucket in the latest invocation.
Refilled ==
  refill(IF call.hit THEN call.pre ELSE create(call.now), call.now)

\* C7. Verdict handling: an invocation either admits (next called once,
\* nothing written to the response, cost charged) or rejects (status 429
\* with an error body, next not called, nothing charged); never both,
\* never neither.
VerdictHandling ==
  call.key # "" =>
    \/ /\ out = [next |-> 1, status |-> 0, body |-> ""]
       /\ Refilled.tokens >= Tok(cost)
       /\ Post.tokens = Refilled.tokens - Tok(cost)
    \/ /\ out.next = 0
       /\ out.status = TooManyRequests
       /\ out.body # ""
       /\ Refilled.tokens < Tok(cost)
       /\ Post.tokens = Refilled.tokens

\* C7 witness: a rejected request: 429, next not called.
VerdictWitness ==
  /\ call.key # ""
  /\ out.next = 0
  /\ out.status = TooManyRequests

\* C8. Backward or stalled clock: a request that reads now <= last leaves
\* last where it was and tokens untouched by the refill step; the
\* admission check still runs: with tokens >= cost the request is admitted
\* and charged cost, otherwise rejected with tokens unchanged.
StalledClock ==
  (call.hit /\ call.now <= call.pre.last) =>
    /\ Post.last = call.pre.last
    /\ IF call.pre.tokens >= Tok(cost)
       THEN out.next = 1 /\ Post.tokens = call.pre.tokens - Tok(cost)
       ELSE out.next = 0 /\ Post.tokens = call.pre.tokens

\* C8 witness: the clock went backward and the request was still admitted
\* and charged.
StalledClockWitness ==
  /\ call.hit
  /\ call.now < call.pre.last
  /\ call.pre.tokens >= Tok(cost)
  /\ out.next = 1
  /\ Post.last = call.pre.last

\* C9. Idempotent creation: the first-time requests of a key, in any
\* order, leave one Bucket object for it: every object ever allocated is
\* the stored bucket of exactly one key (none was replaced), and the
\* requests of a new key at one instant are admitted at most CAPACITY
\* times in all.
IdempotentCreation ==
  /\ Len(heap) = Cardinality(DOMAIN buckets)
  /\ \A j, k \in DOMAIN buckets : buckets[j] = buckets[k] => j = k
  /\ \A k \in DOMAIN buckets : buckets[k] \in 1..Len(heap)
  /\ burst.fresh => BurstAdmitted <= CAPACITY \div cost

\* C9 witness: 49 first-time requests of one new key at one instant: one
\* Bucket object, charged 49 times.
ConvergeWitness == Served /\ Len(heap) = 1 /\ BurstRequests = CAPACITY - 1

\* C10. Append-only store: a step never removes a key nor points it at
\* another Bucket object nor frees an object, and a request for a stored
\* key never resets its bucket: its tokens grow by no more than the refill
\* for the time elapsed.
AppendOnlyStore ==
  [][/\ Len(heap') >= Len(heap)
     /\ \A k \in DOMAIN buckets :
          /\ k \in DOMAIN buckets'
          /\ buckets'[k] = buckets[k]
          /\ heap'[buckets'[k]].tokens <=
               heap[buckets[k]].tokens
                 + (IF call'.key = k /\ call'.now > heap[buckets[k]].last
                    THEN (call'.now - heap[buckets[k]].last) * RATE
                    ELSE 0)]_vars

\* C10 witness: three keys stored, and a request for a key stored before
\* found its bucket drained, not full.
AppendOnlyWitness ==
  /\ Cardinality(DOMAIN buckets) = 3
  /\ call.hit
  /\ call.pre.tokens < Tok(CAPACITY) - Tok(cost)

\* The client key the preference order gives a request: the peer address,
\* else the forwarded-for value, else the socket address, else "anon".
Preferred(r) ==
  IF r.ip # "" THEN r.ip
  ELSE IF r.xff # "" THEN r.xff
  ELSE IF r.remote # "" THEN r.remote
  ELSE "anon"

\* C11. Identity resolution: the key of every invocation is a non-empty
\* string, the first available of req.ip, the x-forwarded-for value, the
\* socket address and "anon", a function of the request alone; it is the
\* key the store is read and written under, so requests with no identity
\* share the one "anon" bucket.
IdentityResolution ==
  calls > 0 =>
    /\ call.key = Preferred(lastReq)
    /\ call.key # ""
    /\ Preferred(lastReq) \in DOMAIN buckets
    /\ "" \notin DOMAIN buckets
    /\ Cardinality(DOMAIN buckets) <= calls
    /\ calls = 1 => DOMAIN buckets = {Preferred(lastReq)}
    /\ call.hit => Cardinality(DOMAIN buckets) < calls

\* C11 witness: two requests with no identity at all: the second finds
\* the "anon" bucket the first created.
IdentityWitness ==
  /\ calls = 2
  /\ lastReq = [ip |-> "", xff |-> "", remote |-> ""]
  /\ DOMAIN buckets = {"anon"}
  /\ call.hit
  /\ Post.tokens = Tok(CAPACITY) - 2 * Tok(cost)

RateCeiling ==
  tally.created >= 0 =>
    /\ tally.admitted * Tok(cost)
         <= Tok(CAPACITY) + RATE * (tally.tmax - tally.created)
    /\ tally.admitted * Tok(cost) + Post.tokens
         <= Tok(CAPACITY) + RATE * (tally.tmax - tally.created)

\* C13 witness: the ceiling is reached (51 admissions in 100 ms) and a
\* request reading an earlier clock is rejected.
RateCeilingWitness ==
  /\ tally.tmax - tally.created = 2 * TickMs
  /\ tally.admitted = CAPACITY + 1
  /\ call.hit
  /\ call.now < call.pre.last
  /\ out.next = 0

\* C15. Monotone refill timestamp: a bucket's last is the largest clock
\* reading any request of its key observed since (and including) its
\* creation; it never decreases, and it changes only in an invocation
\* whose reading is strictly greater, to that reading.
MonotoneStamp ==
  tally.created >= 0 =>
    /\ Post.last = tally.tmax
    /\ ~call.hit => Post.last = call.now
    /\ call.hit =>
         /\ Post.last >= call.pre.last
         /\ Post.last # call.pre.last =>
              call.now > call.pre.last /\ Post.last = call.now

\* C15 witness: after the clock advanced, a request reads an earlier
\* clock and last stays at the largest reading.
MonotoneStampWitness ==
  /\ tally.tmax > tally.created
  /\ call.hit
  /\ call.now < call.pre.last
  /\ Post.last = tally.tmax
  /\ Post.last = call.pre.last

\* C14: a request that comes at or after the instant the deficit of an
\* earlier instant t0 is refilled, t0 + (cost - tokens) / RATE seconds, with
\* the clock never going backward in between, is admitted, however many
\* requests were rejected in between.
PromptRecovery == verdict.due => verdict.next = 1

\* the requests PromptRecovery is about do occur, and some are admitted
PromptRecoveryWitness == verdict.due /\ verdict.next = 1

====
